---- MODULE Spec2Model ----
(***************************************************************************)
(* The authoritative game server of shoot-n-kill (src/unnamed/part_000)    *)
(* with its engine (src/unnamed/part_001): the room table, the table of    *)
(* recently disconnected players, the socket handlers, the cleanup         *)
(* interval and the game update loop.                                      *)
(*                                                                         *)
(* A Map is a sequence in insertion order (Map.set of a present key keeps  *)
(* its place, Map.delete closes the gap). Room ids stand for uuidv4()      *)
(* strings: the n-th id generated is n, never reused; CREATE stands for    *)
(* the literal 'create'. Socket ids are connection numbers, each used for  *)
(* one connection. Date.now() is the variable now. Positions are integer   *)
(* points, on which the engine's floating point arithmetic is exact.       *)
(***************************************************************************)
EXTENDS Integers, Sequences, FiniteSets, TLC

\* ------------------------------------------------------------------ bounds
MaxConns == 3
MaxRooms == 2
MaxProjectiles == 2
MaxPeriods == 1
StartTime == 1000

\* ------------------------------------------------------- program constants
ROOM_CLEANUP_INTERVAL == 300000
ROOM_EXPIRY_TIME == 120000
ROOM_GRACE_PERIOD == 10000
MIN_UPDATE_INTERVAL == 50
PROJECTILE_SPEED == 10
MAP_WIDTH == 800
MAP_HEIGHT == 600
PLAYER_RADIUS == 20
PROJECTILE_RADIUS == 5
DAMAGE == 20
FULL_HEALTH == 100
CREATE == 0
NoRoom == 0 - 1

\* ------------------------------------------------------------------ inputs
Conns == 1..MaxConns

RoomIds == 1..MaxRooms

\* the usernames clients are opened with, in the order of first use
UsernameSeq == <<"alice", "bob", "carol">>

Usernames == {UsernameSeq[k] : k \in 1..Len(UsernameSeq)}

\* rooms, recentlyDisconnected: the server's two tables. socketData,
\* socketRooms: socket.data.roomId and the groups of each socket. connState,
\* clientName: the connections and the username each client page sends.
\* now, nextCleanup: Date.now() and the next firing of the cleanup interval.
\* out: the events the last handler emitted, in order.
\* createdBy, creatorLeft: history the server does not keep, for stating
\* properties: the username that created each room, and for a room and a
\* username the time a creator of that name last disconnected from it and
\* has not joined it again.
VARIABLES rooms, recentlyDisconnected, socketData, socketRooms, connState,
          clientName, nextRoomId, now, nextCleanup, out, createdBy,
          creatorLeft

vars == <<rooms, recentlyDisconnected, socketData, socketRooms, connState,
          clientName, nextRoomId, now, nextCleanup, out, createdBy,
          creatorLeft>>

socketVars == <<socketData, socketRooms, connState, clientName>>

clockVars == <<now, nextCleanup>>

historyVars == <<createdBy, creatorLeft>>

\* ------------------------------------------------------------- Map helpers
Ids(players) == {players[i].id : i \in 1..Len(players)}

Has(players, id) == id \in Ids(players)

IndexOf(players, id) == CHOOSE i \in 1..Len(players) : players[i].id = id

Get(players, id) == players[IndexOf(players, id)]

MapSet(players, id, p) ==
    IF Has(players, id)
    THEN [players EXCEPT ![IndexOf(players, id)] = p]
    ELSE Append(players, p)

\* mutant: the delete is left out
MapDeleteNothing(players, id) == players

MapDelete(players, id) ==
    IF Has(players, id)
    THEN LET k == IndexOf(players, id)
         IN  [i \in 1..(Len(players) - 1) |->
                 IF i < k THEN players[i] ELSE players[i + 1]]
    ELSE players

\* Array.from(room.players.values()).find(p => p.username === username)
HasUsername(players, username) ==
    \E i \in 1..Len(players) : players[i].username = username

FindUsername(players, username) ==
    players[CHOOSE i \in 1..Len(players) :
               /\ players[i].username = username
               /\ \A j \in 1..(i - 1) : players[j].username # username]

\* ------------------------------------------------------------------ events
\* One emitted event: kind "socket" is socket.emit (to conn only), "others" is
\* socket.to(room) (the group minus conn), "room" is io.to(room) (the group).
\* who is the player (or projectile) the payload names, n a number it carries,
\* msg a string it carries.
EventN(ev, kind, room, conn, who, n, msg) ==
    [ev |-> ev, kind |-> kind, room |-> room, conn |-> conn, who |-> who,
     n |-> n, msg |-> msg]

Event(ev, kind, room, conn, who, msg) ==
    EventN(ev, kind, room, conn, who, 0, msg)

\* ------------------------------------------------------------ table helpers
EmptyMap == [k \in {} |-> 0]

Put(f, k, v) == [x \in (DOMAIN f) \cup {k} |-> IF x = k THEN v ELSE f[x]]

Remove(f, k) == [x \in (DOMAIN f) \ {k} |-> f[x]]

Player(id, username, position, rotation, health, isCreator) ==
    [id |-> id, username |-> username, position |-> position,
     rotation |-> rotation, health |-> health, isCreator |-> isCreator]

\* Math.random() * (800 - 100) + 50, Math.random() * (600 - 100) + 50
SpawnPoints == {<<749, 300>>}

\* ----------------------------------------------------------- initial state
Init ==
    /\ rooms = EmptyMap
    /\ recentlyDisconnected = EmptyMap
    /\ socketData = [c \in Conns |-> NoRoom]
    /\ socketRooms = [c \in Conns |-> {}]
    /\ connState = [c \in Conns |-> "new"]
    /\ clientName = [c \in Conns |-> ""]
    /\ nextRoomId = 1
    /\ now = StartTime
    /\ nextCleanup = StartTime + ROOM_CLEANUP_INTERVAL
    /\ out = <<>>
    /\ createdBy = EmptyMap
    /\ creatorLeft = EmptyMap

\* io.on('connection'): socket ids are handed out in order, one per connection.
\* The client page behind the connection sends one username, the one in its
\* URL; a username not seen before is the next of UsernameSeq.
Connect(c, name) ==
    /\ connState[c] = "new"
    /\ \A d \in Conns : d < c => connState[d] # "new"
    /\ \E k \in 1..Len(UsernameSeq) :
          /\ name = UsernameSeq[k]
          /\ \A j \in 1..(k - 1) :
                \E d \in Conns : d < c /\ clientName[d] = UsernameSeq[j]
    /\ connState' = [connState EXCEPT ![c] = "open"]
    /\ clientName' = [clientName EXCEPT ![c] = name]
    /\ out' = <<>>
    /\ UNCHANGED <<rooms, recentlyDisconnected, socketData, socketRooms,
                   nextRoomId, clockVars, historyVars>>

\* mutant: a rejected request is dropped without an answer
RejectSilently(c, message) ==
    /\ out' = <<>>
    /\ UNCHANGED <<rooms, recentlyDisconnected, socketVars, nextRoomId,
                   clockVars, historyVars>>

\* socket.emit('error', message); return (startGame sends {message: ...})
Reject(c, message) ==
    /\ out' = <<Event("error", "socket", NoRoom, c, 0, message)>>
    /\ UNCHANGED <<rooms, recentlyDisconnected, socketVars, nextRoomId,
                   clockVars, historyVars>>

\* return, with nothing emitted
Drop ==
    /\ out' = <<>>
    /\ UNCHANGED <<rooms, recentlyDisconnected, socketVars, nextRoomId,
                   clockVars, historyVars>>

\* ---------------------------------------------------------------- createRoom
\* mutant: only rooms still waiting count
UserHasRoomWaiting(username) ==
    \E r \in DOMAIN rooms :
       /\ rooms[r].status = "waiting"
       /\ HasUsername(rooms[r].players, username)

\* some room has a player of that username
UserHasRoom(username) ==
    \E r \in DOMAIN rooms : HasUsername(rooms[r].players, username)

\* mutant: roomCreated goes to the other connections
CreateRoomAnnounced(c, username) ==
    /\ connState[c] = "open"
    /\ IF UserHasRoom(username)
       THEN Reject(c, "You already have an active room")
       ELSE /\ nextRoomId <= MaxRooms
            /\ LET roomId == nextRoomId
                   player == Player(c, username, <<400, 300>>, 0, FULL_HEALTH,
                                    TRUE)
                   room == [id |-> roomId,
                            players |-> <<player>>,
                            projectiles |-> <<>>,
                            status |-> "waiting",
                            creatorId |-> c,
                            lastActivity |-> now,
                            lastPlayerUpdates |-> [d \in Conns |-> 0]]
               IN  /\ rooms' = Put(rooms, roomId, room)
                   /\ socketRooms' =
                         [socketRooms EXCEPT ![c] = @ \cup {roomId}]
                   /\ socketData' = [socketData EXCEPT ![c] = roomId]
                   /\ nextRoomId' = nextRoomId + 1
                   /\ createdBy' = Put(createdBy, roomId, username)
                   /\ out' = <<Event("roomCreated", "others", roomId, c, c,
                                     ""),
                               Event("roomJoined", "socket", roomId, c, c,
                                     "")>>
            /\ UNCHANGED <<recentlyDisconnected, connState, clientName,
                           clockVars, creatorLeft>>

CreateRoom(c, username) ==
    /\ connState[c] = "open"
    /\ IF UserHasRoom(username)
       THEN Reject(c, "You already have an active room")
       ELSE /\ nextRoomId <= MaxRooms
            /\ LET roomId == nextRoomId
                   player == Player(c, username, <<400, 300>>, 0, FULL_HEALTH,
                                    TRUE)
                   room == [id |-> roomId,
                            players |-> <<player>>,
                            projectiles |-> <<>>,
                            status |-> "waiting",
                            creatorId |-> c,
                            lastActivity |-> now,
                            lastPlayerUpdates |-> [d \in Conns |-> 0]]
               IN  /\ rooms' = Put(rooms, roomId, room)
                   /\ socketRooms' =
                         [socketRooms EXCEPT ![c] = @ \cup {roomId}]
                   /\ socketData' = [socketData EXCEPT ![c] = roomId]
                   /\ nextRoomId' = nextRoomId + 1
                   /\ createdBy' = Put(createdBy, roomId, username)
                   /\ out' = <<Event("roomCreated", "socket", roomId, c, c,
                                     ""),
                               Event("roomJoined", "socket", roomId, c, c,
                                     "")>>
            /\ UNCHANGED <<recentlyDisconnected, connState, clientName,
                           clockVars, creatorLeft>>

\* ------------------------------------------------------------------ joinRoom
\* disconnectedPlayer && disconnectedPlayer.roomId === roomId
IsReconnecting(roomId, username) ==
    /\ username \in DOMAIN recentlyDisconnected
    /\ recentlyDisconnected[username].roomId = roomId

\* mutant: the id comparison is inverted
UsernameTakenInverted(c, roomId, username) ==
    /\ HasUsername(rooms[roomId].players, username)
    /\ FindUsername(rooms[roomId].players, username).id = c
    /\ ~IsReconnecting(roomId, username)

\* existingPlayer && existingPlayer.id !== socket.id && !isReconnecting
UsernameTaken(c, roomId, username) ==
    /\ HasUsername(rooms[roomId].players, username)
    /\ FindUsername(rooms[roomId].players, username).id # c
    /\ ~IsReconnecting(roomId, username)

\* mutant: the flags of the other players are left as they are
DemoteNone(players) == players

\* the loop that clears isCreator on every player of the room
Demote(players) ==
    [i \in 1..Len(players) |-> [players[i] EXCEPT !.isCreator = FALSE]]

JoinRoom(c, roomId, username, spawn) ==
    /\ connState[c] = "open"
    /\ IF roomId = CREATE
       THEN Reject(c, "Invalid room ID")
       ELSE IF roomId \notin DOMAIN rooms
       THEN Reject(c, "Room not found")
       ELSE IF UsernameTaken(c, roomId, username)
       THEN Reject(c, "Username already taken in this room")
       ELSE LET room == rooms[roomId]
                isReconnecting == IsReconnecting(roomId, username)
                wasCreator == /\ isReconnecting
                              /\ recentlyDisconnected[username].wasCreator
                newPlayer == Player(c, username, spawn, 0, FULL_HEALTH,
                                    wasCreator)
                before == IF wasCreator THEN Demote(room.players)
                          ELSE room.players
            IN  /\ socketRooms' = [socketRooms EXCEPT ![c] = @ \cup {roomId}]
                /\ socketData' = [socketData EXCEPT ![c] = roomId]
                /\ rooms' = [rooms EXCEPT ![roomId] =
                       [room EXCEPT
                          !.creatorId = IF wasCreator THEN c ELSE @,
                          !.players = MapSet(before, c, newPlayer),
                          !.lastActivity = now]]
                /\ recentlyDisconnected' =
                       IF isReconnecting
                       THEN Remove(recentlyDisconnected, username)
                       ELSE recentlyDisconnected
                /\ creatorLeft' = Remove(creatorLeft, <<roomId, username>>)
                /\ out' = <<Event("roomJoined", "socket", roomId, c, c, ""),
                            Event("playerJoined", "others", roomId, c, c,
                                  "")>>
                /\ UNCHANGED <<connState, clientName, nextRoomId, clockVars,
                               createdBy>>

\* ---------------------------------------------------------------- disconnect
\* mutant: the creator role moves on whoever leaves
DisconnectMigrating(c) ==
    /\ connState[c] = "open"
    /\ connState' = [connState EXCEPT ![c] = "closed"]
    /\ socketRooms' = [socketRooms EXCEPT ![c] = {}]
    /\ socketData' = [socketData EXCEPT ![c] = NoRoom]
    /\ UNCHANGED <<clientName, nextRoomId, clockVars, createdBy>>
    /\ LET roomId == socketData[c]
       IN  IF \/ roomId = NoRoom
              \/ roomId \notin DOMAIN rooms
              \/ ~Has(rooms[roomId].players, c)
           THEN /\ out' = <<>>
                /\ UNCHANGED <<rooms, recentlyDisconnected, creatorLeft>>
           ELSE LET room == rooms[roomId]
                    player == Get(room.players, c)
                    rest == MapDelete(room.players, c)
                    migrate == Len(rest) > 0
                    newCreator == rest[1]
                    after == IF migrate
                             THEN [rest EXCEPT ![1].isCreator = TRUE]
                             ELSE rest
                IN  /\ recentlyDisconnected' =
                          Put(recentlyDisconnected, player.username,
                              [roomId |-> roomId,
                               timestamp |-> now,
                               username |-> player.username,
                               wasCreator |-> (player.isCreator
                                               \/ c = room.creatorId)])
                    /\ rooms' = [rooms EXCEPT ![roomId] =
                          [room EXCEPT
                             !.players = after,
                             !.creatorId = IF migrate THEN newCreator.id
                                           ELSE @,
                             !.lastActivity = now]]
                    /\ creatorLeft' =
                          IF c = room.creatorId
                          THEN Put(creatorLeft, <<roomId, player.username>>,
                                   now)
                          ELSE creatorLeft
                    /\ out' = (IF migrate
                               THEN <<Event("creatorChanged", "room", roomId,
                                            c, newCreator.id, "")>>
                               ELSE <<>>)
                              \o <<Event("playerLeft", "room", roomId, c, c,
                                         "")>>

\* The transport has taken the socket out of its groups when the handler runs;
\* the socket object, and socket.data with it, is dropped after the handler.
Disconnect(c) ==
    /\ connState[c] = "open"
    /\ connState' = [connState EXCEPT ![c] = "closed"]
    /\ socketRooms' = [socketRooms EXCEPT ![c] = {}]
    /\ socketData' = [socketData EXCEPT ![c] = NoRoom]
    /\ UNCHANGED <<clientName, nextRoomId, clockVars, createdBy>>
    /\ LET roomId == socketData[c]
       IN  IF \/ roomId = NoRoom
              \/ roomId \notin DOMAIN rooms
              \/ ~Has(rooms[roomId].players, c)
           THEN /\ out' = <<>>
                /\ UNCHANGED <<rooms, recentlyDisconnected, creatorLeft>>
           ELSE LET room == rooms[roomId]
                    player == Get(room.players, c)
                    rest == MapDelete(room.players, c)
                    migrate == c = room.creatorId /\ Len(rest) > 0
                    newCreator == rest[1]
                    after == IF migrate
                             THEN [rest EXCEPT ![1].isCreator = TRUE]
                             ELSE rest
                IN  /\ recentlyDisconnected' =
                          Put(recentlyDisconnected, player.username,
                              [roomId |-> roomId,
                               timestamp |-> now,
                               username |-> player.username,
                               wasCreator |-> (player.isCreator
                                               \/ c = room.creatorId)])
                    /\ rooms' = [rooms EXCEPT ![roomId] =
                          [room EXCEPT
                             !.players = after,
                             !.creatorId = IF migrate THEN newCreator.id
                                           ELSE @,
                             !.lastActivity = now]]
                    /\ creatorLeft' =
                          IF c = room.creatorId
                          THEN Put(creatorLeft, <<roomId, player.username>>,
                                   now)
                          ELSE creatorLeft
                    /\ out' = (IF migrate
                               THEN <<Event("creatorChanged", "room", roomId,
                                            c, newCreator.id, "")>>
                               ELSE <<>>)
                              \o <<Event("playerLeft", "room", roomId, c, c,
                                         "")>>

\* -------------------------------------------------------------- updatePlayer
\* what a client reports: a position and a rotation
Moves == {[position |-> <<790, 300>>, rotation |-> 1],
          [position |-> <<400, 320>>, rotation |-> 2]}

\* a position of null in the payload
NullPosition == <<>>

\* An exception that leaves the handler is not caught anywhere: the process
\* ends, with it the rooms, the intervals and every connection.
ProcessExit ==
    /\ rooms' = EmptyMap
    /\ recentlyDisconnected' = EmptyMap
    /\ connState' = [c \in Conns |-> "closed"]
    /\ socketRooms' = [c \in Conns |-> {}]
    /\ socketData' = [c \in Conns |-> NoRoom]
    /\ out' = <<>>
    /\ UNCHANGED <<clientName, nextRoomId, clockVars, historyVars>>

\* mutant: one rate limit for the room instead of one per player
UpdatePlayerRoomLimit(c, roomId, position, rotation) ==
    /\ connState[c] = "open"
    /\ IF roomId \notin DOMAIN rooms
       THEN Drop
       ELSE IF \/ \E d \in Conns :
                     now - rooms[roomId].lastPlayerUpdates[d]
                        < MIN_UPDATE_INTERVAL
               \/ ~Has(rooms[roomId].players, c)
       THEN Drop
       ELSE LET room == rooms[roomId]
            IN  /\ rooms' = [rooms EXCEPT ![roomId] =
                      [room EXCEPT
                         !.players = MapSet(room.players, c,
                             [Get(room.players, c) EXCEPT
                                 !.position = position,
                                 !.rotation = rotation]),
                         !.lastPlayerUpdates = [@ EXCEPT ![c] = now],
                         !.lastActivity = now]]
                /\ out' = <<Event("playerUpdated", "others", roomId, c, c,
                                  "")>>
                /\ UNCHANGED <<recentlyDisconnected, socketVars, nextRoomId,
                               clockVars, historyVars>>

\* mutant: the reported position is clamped to where a player fits the map
UpdatePlayerClamped(c, roomId, position, rotation) ==
    /\ connState[c] = "open"
    /\ IF roomId \notin DOMAIN rooms
       THEN Drop
       ELSE IF \/ now - rooms[roomId].lastPlayerUpdates[c]
                     < MIN_UPDATE_INTERVAL
               \/ ~Has(rooms[roomId].players, c)
       THEN Drop
       ELSE LET room == rooms[roomId]
            IN  /\ rooms' = [rooms EXCEPT ![roomId] =
                      [room EXCEPT
                         !.players = MapSet(room.players, c,
                             [Get(room.players, c) EXCEPT
                                 !.position =
                                    <<IF position[1] > MAP_WIDTH - PLAYER_RADIUS
                                      THEN MAP_WIDTH - PLAYER_RADIUS
                                      ELSE position[1], position[2]>>,
                                 !.rotation = rotation]),
                         !.lastPlayerUpdates = [@ EXCEPT ![c] = now],
                         !.lastActivity = now]]
                /\ out' = <<Event("playerUpdated", "others", roomId, c, c,
                                  "")>>
                /\ UNCHANGED <<recentlyDisconnected, socketVars, nextRoomId,
                               clockVars, historyVars>>

UpdatePlayer(c, roomId, position, rotation) ==
    /\ connState[c] = "open"
    /\ IF roomId \notin DOMAIN rooms
       THEN Drop
       ELSE IF \/ now - rooms[roomId].lastPlayerUpdates[c]
                     < MIN_UPDATE_INTERVAL
               \/ ~Has(rooms[roomId].players, c)
       THEN Drop
       ELSE IF position = NullPosition
       THEN ProcessExit    \* position.x of the log entry throws a TypeError
       ELSE LET room == rooms[roomId]
            IN  /\ rooms' = [rooms EXCEPT ![roomId] =
                      [room EXCEPT
                         !.players = MapSet(room.players, c,
                             [Get(room.players, c) EXCEPT
                                 !.position = position,
                                 !.rotation = rotation]),
                         !.lastPlayerUpdates = [@ EXCEPT ![c] = now],
                         !.lastActivity = now]]
                /\ out' = <<Event("playerUpdated", "others", roomId, c, c,
                                  "")>>
                /\ UNCHANGED <<recentlyDisconnected, socketVars, nextRoomId,
                               clockVars, historyVars>>

\* ----------------------------------------------------------------- startGame
\* mutant: startGame without the player count check
StartGameAnySize(c, roomId) ==
    /\ connState[c] = "open"
    /\ IF roomId \notin DOMAIN rooms
       THEN Reject(c, "{message: Room not found}")
       ELSE IF c # rooms[roomId].creatorId
       THEN Reject(c, "{message: Only the room creator can start the game}")
       ELSE /\ rooms' = [rooms EXCEPT ![roomId].status = "playing"]
            /\ out' = <<Event("gameStarted", "room", roomId, c, 0, "")>>
            /\ UNCHANGED <<recentlyDisconnected, socketVars, nextRoomId,
                           clockVars, historyVars>>

StartGame(c, roomId) ==
    /\ connState[c] = "open"
    /\ IF roomId \notin DOMAIN rooms
       THEN Reject(c, "{message: Room not found}")
       ELSE IF c # rooms[roomId].creatorId
       THEN Reject(c, "{message: Only the room creator can start the game}")
       ELSE IF Len(rooms[roomId].players) < 2
       THEN Reject(c, "{message: Need at least 2 players to start}")
       ELSE /\ rooms' = [rooms EXCEPT ![roomId].status = "playing"]
            /\ out' = <<Event("gameStarted", "room", roomId, c, 0, "")>>
            /\ UNCHANGED <<recentlyDisconnected, socketVars, nextRoomId,
                           clockVars, historyVars>>

\* -------------------------------------------------------------------- engine
\* The result of arithmetic on a coordinate that the payload did not have:
\* undefined + number is NaN. It is written as a number that no coordinate
\* reaches.
NaN == 0 - MAP_WIDTH * MAP_HEIGHT

\* a + b of doubles at the values used: NaN is absorbing
Add(a, b) == IF a = NaN \/ b = NaN THEN NaN ELSE a + b

vectorAdd(a, b) == <<Add(a[1], b[1]), Add(a[2], b[2])>>

vectorMultiply(v, scalar) == <<v[1] * scalar, v[2] * scalar>>

\* (cos, sin) of the angles 0, pi/2, pi, -pi/2, written 0, 1, 2, 3; the
\* doubles differ from these by less
\* than 2e-16, which the additions below round away at the points used
vectorFromAngle(angle) ==
    CASE angle = 0 -> <<1, 0>>
      [] angle = 1 -> <<0, 1>>
      [] angle = 2 -> <<0 - 1, 0>>
      [] OTHER -> <<0, 0 - 1>>

\* distance(a, b) < limit, without the square root
\* a comparison with NaN is false
DistanceBelow(a, b, limit) ==
    LET dx == b[1] - a[1]
        dy == b[2] - a[2]
    IN  /\ NaN \notin {a[1], a[2], b[1], b[2]}
        /\ dx * dx + dy * dy < limit * limit

checkWallCollision(pos, radius) ==
    \/ pos[1] # NaN /\ pos[1] - radius < 0
    \/ pos[1] # NaN /\ pos[1] + radius > MAP_WIDTH
    \/ pos[2] # NaN /\ pos[2] - radius < 0
    \/ pos[2] # NaN /\ pos[2] + radius > MAP_HEIGHT

createProjectile(id, position, angle, playerId) ==
    [id |-> id,
     position |-> position,
     velocity |-> vectorMultiply(vectorFromAngle(angle), PROJECTILE_SPEED),
     playerId |-> playerId]

\* mutant: the velocity is added twice
updateProjectileTwice(projectile) ==
    [projectile EXCEPT !.position =
        vectorAdd(vectorAdd(@, projectile.velocity), projectile.velocity)]

updateProjectile(projectile) ==
    [projectile EXCEPT !.position = vectorAdd(@, projectile.velocity)]

\* mutant: the owner is not skipped
TargetsWithOwner(projectile, players) ==
    {i \in 1..Len(players) :
        DistanceBelow(projectile.position, players[i].position,
                      PLAYER_RADIUS + PROJECTILE_RADIUS)}

\* the players a projectile overlaps, its owner left out
Targets(projectile, players) ==
    {i \in 1..Len(players) :
        /\ players[i].id # projectile.playerId
        /\ DistanceBelow(projectile.position, players[i].position,
                         PLAYER_RADIUS + PROJECTILE_RADIUS)}

\* {hit, playerId}; playerId is 0 where the code leaves it undefined
checkProjectileCollision(projectile, players) ==
    IF checkWallCollision(projectile.position, PROJECTILE_RADIUS)
    THEN [hit |-> TRUE, playerId |-> 0]
    ELSE IF Targets(projectile, players) # {}
    THEN [hit |-> TRUE,
          playerId |-> players[CHOOSE i \in Targets(projectile, players) :
                          \A j \in Targets(projectile, players) : i <= j].id]
    ELSE [hit |-> FALSE, playerId |-> 0]

\* --------------------------------------------------------------------- shoot
\* Math.random().toString(36).substring(7): any of the ids, not always fresh
ProjectileIds == {1, 2}

\* what a client reports: the gun's position and the angle
Shots == {[position |-> <<760, 300>>, angle |-> 0]}

\* mutant: shoot without the status check
ShootAnyStatus(c, roomId, position, angle, id) ==
    /\ connState[c] = "open"
    /\ IF roomId \notin DOMAIN rooms
       THEN Drop
       ELSE /\ Len(rooms[roomId].projectiles) < MaxProjectiles
            /\ rooms' = [rooms EXCEPT ![roomId].projectiles =
                            Append(@, createProjectile(id, position, angle, c))]
            /\ out' = <<Event("projectileCreated", "room", roomId, c, id, "")>>
            /\ UNCHANGED <<recentlyDisconnected, socketVars, nextRoomId,
                           clockVars, historyVars>>

Shoot(c, roomId, position, angle, id) ==
    /\ connState[c] = "open"
    /\ IF roomId \notin DOMAIN rooms \/ rooms[roomId].status # "playing"
       THEN Drop
       ELSE /\ Len(rooms[roomId].projectiles) < MaxProjectiles
            /\ rooms' = [rooms EXCEPT ![roomId].projectiles =
                            Append(@, createProjectile(id, position, angle, c))]
            /\ out' = <<Event("projectileCreated", "room", roomId, c, id, "")>>
            /\ UNCHANGED <<recentlyDisconnected, socketVars, nextRoomId,
                           clockVars, historyVars>>

\* ---------------------------------------------------------- game update loop
Max(a, b) == IF a >= b THEN a ELSE b

\* mutant: the damage is applied twice
HealthAfterHitTwice(health) == Max(0, Max(0, health - DAMAGE) - DAMAGE)

\* const damage = 20; hitPlayer.health = Math.max(0, hitPlayer.health - damage)
HealthAfterHit(health) == Max(0, health - DAMAGE)

\* mutant: the game-over check counts the players before the dead one is
\* deleted
FilterStepCountBeforeDelete(acc, roomId, projectile) ==
    LET updatedProjectile == updateProjectile(projectile)
        collision == checkProjectileCollision(updatedProjectile, acc.players)
    IN  IF checkWallCollision(updatedProjectile.position, PROJECTILE_RADIUS)
        THEN [acc EXCEPT !.out = Append(@,
                 EventN("projectileHit", "room", roomId, 0, 0, projectile.id,
                        ""))]
        ELSE IF collision.hit
        THEN LET hitPlayer == Get(acc.players, collision.playerId)
                 health == Max(0, hitPlayer.health - DAMAGE)
                 damaged == MapSet(acc.players, hitPlayer.id,
                                   [hitPlayer EXCEPT !.health = health])
                 killerUsername ==
                     IF Has(acc.players, projectile.playerId)
                     THEN Get(acc.players, projectile.playerId).username
                     ELSE "Unknown"
                 remainingPlayers == MapDelete(damaged, hitPlayer.id)
                 hitEvents ==
                     <<EventN("playerUpdated", "room", roomId, 0, hitPlayer.id,
                              health, ""),
                       EventN("projectileHit", "room", roomId, 0,
                              hitPlayer.id, projectile.id, "")>>
             IN  IF health <= 0
                 THEN [acc EXCEPT
                         !.players = remainingPlayers,
                         !.status = IF Len(damaged) = 1
                                    THEN "finished" ELSE @,
                         !.out = @ \o hitEvents
                                 \o <<Event("playerDied", "room", roomId, 0,
                                            hitPlayer.id, killerUsername)>>
                                 \o (IF Len(damaged) = 1
                                     THEN <<Event("gameOver", "room", roomId, 0,
                                                  damaged[1].id,
                                                  damaged[1].username)>>
                                     ELSE <<>>)]
                 ELSE [acc EXCEPT !.players = damaged, !.out = @ \o hitEvents]
        ELSE [acc EXCEPT !.kept = Append(@, updatedProjectile)]

\* mutant: the player test comes before the wall test
FilterStepPlayerFirst(acc, roomId, projectile) ==
    LET updatedProjectile == updateProjectile(projectile)
        hits == Targets(updatedProjectile, acc.players)
    IN  IF hits # {}
        THEN LET hitPlayer == acc.players[CHOOSE i \in hits :
                                            \A j \in hits : i <= j]
                 health == HealthAfterHit(hitPlayer.health)
                 damaged == MapSet(acc.players, hitPlayer.id,
                                   [hitPlayer EXCEPT !.health = health])
                 killerUsername ==
                     IF Has(acc.players, projectile.playerId)
                     THEN Get(acc.players, projectile.playerId).username
                     ELSE "Unknown"
                 remainingPlayers == MapDelete(damaged, hitPlayer.id)
                 hitEvents ==
                     <<EventN("playerUpdated", "room", roomId, 0, hitPlayer.id,
                              health, ""),
                       EventN("projectileHit", "room", roomId, 0,
                              hitPlayer.id, projectile.id, "")>>
             IN  IF health <= 0
                 THEN [acc EXCEPT
                         !.players = remainingPlayers,
                         !.status = IF Len(remainingPlayers) = 1
                                    THEN "finished" ELSE @,
                         !.out = @ \o hitEvents
                                 \o <<Event("playerDied", "room", roomId, 0,
                                            hitPlayer.id, killerUsername)>>
                                 \o (IF Len(remainingPlayers) = 1
                                     THEN <<Event("gameOver", "room", roomId, 0,
                                                  remainingPlayers[1].id,
                                                  remainingPlayers[1].username)>>
                                     ELSE <<>>)]
                 ELSE [acc EXCEPT !.players = damaged, !.out = @ \o hitEvents]
        ELSE IF checkWallCollision(updatedProjectile.position,
                                   PROJECTILE_RADIUS)
        THEN [acc EXCEPT !.out = Append(@,
                 EventN("projectileHit", "room", roomId, 0, 0, projectile.id,
                        ""))]
        ELSE [acc EXCEPT !.kept = Append(@, updatedProjectile)]

\* One pass of the filter callback: acc is the room as the callback has left
\* it so far (players, status), the projectiles kept and the events emitted.
FilterStep(acc, roomId, projectile) ==
    LET updatedProjectile == updateProjectile(projectile)
        collision == checkProjectileCollision(updatedProjectile, acc.players)
    IN  IF checkWallCollision(updatedProjectile.position, PROJECTILE_RADIUS)
        THEN [acc EXCEPT !.out = Append(@,
                 EventN("projectileHit", "room", roomId, 0, 0, projectile.id,
                        ""))]
        ELSE IF collision.hit
        THEN LET hitPlayer == Get(acc.players, collision.playerId)
                 health == HealthAfterHit(hitPlayer.health)
                 damaged == MapSet(acc.players, hitPlayer.id,
                                   [hitPlayer EXCEPT !.health = health])
                 killerUsername ==
                     IF Has(acc.players, projectile.playerId)
                     THEN Get(acc.players, projectile.playerId).username
                     ELSE "Unknown"
                 remainingPlayers == MapDelete(damaged, hitPlayer.id)
                 hitEvents ==
                     <<EventN("playerUpdated", "room", roomId, 0, hitPlayer.id,
                              health, ""),
                       EventN("projectileHit", "room", roomId, 0,
                              hitPlayer.id, projectile.id, "")>>
             IN  IF health <= 0
                 THEN [acc EXCEPT
                         !.players = remainingPlayers,
                         !.status = IF Len(remainingPlayers) = 1
                                    THEN "finished" ELSE @,
                         !.out = @ \o hitEvents
                                 \o <<Event("playerDied", "room", roomId, 0,
                                            hitPlayer.id, killerUsername)>>
                                 \o (IF Len(remainingPlayers) = 1
                                     THEN <<Event("gameOver", "room", roomId, 0,
                                                  remainingPlayers[1].id,
                                                  remainingPlayers[1].username)>>
                                     ELSE <<>>)]
                 ELSE [acc EXCEPT !.players = damaged, !.out = @ \o hitEvents]
        ELSE [acc EXCEPT !.kept = Append(@, updatedProjectile)]

RECURSIVE Filter(_, _, _, _)
Filter(acc, roomId, projectiles, i) ==
    IF i > Len(projectiles) THEN acc
    ELSE Filter(FilterStep(acc, roomId, projectiles[i]), roomId, projectiles,
                i + 1)

\* the body of the loop for one room in 'playing' status
UpdateRoom(room) ==
    LET acc == Filter([players |-> room.players, status |-> room.status,
                       kept |-> <<>>, out |-> <<>>],
                      room.id, room.projectiles, 1)
    IN  [room |-> [room EXCEPT !.players = acc.players,
                               !.status = acc.status,
                               !.projectiles = acc.kept],
         out |-> acc.out
                 \o (IF Len(acc.kept) > 0
                     THEN <<EventN("projectilesUpdate", "room", room.id, 0, 0,
                                   Len(acc.kept), "")>>
                     ELSE <<>>)
                 \o <<EventN("projectilesUpdated", "room", room.id, 0, 0,
                             Len(acc.kept), "")>>]

RECURSIVE UpdateOut(_)
UpdateOut(roomId) ==
    IF roomId >= nextRoomId THEN <<>>
    ELSE (IF roomId \in DOMAIN rooms /\ rooms[roomId].status = "playing"
          THEN UpdateRoom(rooms[roomId]).out ELSE <<>>)
         \o UpdateOut(roomId + 1)

\* mutant: the loop body runs for every room, whatever its status
GameUpdateAnyStatus ==
    /\ rooms' = [r \in DOMAIN rooms |-> UpdateRoom(rooms[r]).room]
    /\ out' = UpdateOut(1)
    /\ UNCHANGED <<recentlyDisconnected, socketVars, nextRoomId, clockVars,
                   historyVars>>

GameUpdate ==
    /\ rooms' = [r \in DOMAIN rooms |->
                    IF rooms[r].status = "playing"
                    THEN UpdateRoom(rooms[r]).room ELSE rooms[r]]
    /\ out' = UpdateOut(1)
    /\ UNCHANGED <<recentlyDisconnected, socketVars, nextRoomId, clockVars,
                   historyVars>>

\* ---------------------------------------------------------- cleanup interval
\* mutant: an expired room is deleted whether or not it has players
CleanupAnyIdleRoom ==
    /\ now = nextCleanup
    /\ nextCleanup' = nextCleanup + ROOM_CLEANUP_INTERVAL
    /\ recentlyDisconnected' =
          [u \in {v \in DOMAIN recentlyDisconnected :
                     ~(now - recentlyDisconnected[v].timestamp
                          > ROOM_GRACE_PERIOD)}
              |-> recentlyDisconnected[u]]
    /\ rooms' =
          [r \in {q \in DOMAIN rooms :
                     ~(now - rooms[q].lastActivity > ROOM_EXPIRY_TIME)}
              |-> rooms[r]]
    /\ out' = <<>>
    /\ UNCHANGED <<socketVars, nextRoomId, now, historyVars>>

\* mutant: the entries are purged by the rooms' expiry time
CleanupEntriesByExpiry ==
    /\ now = nextCleanup
    /\ nextCleanup' = nextCleanup + ROOM_CLEANUP_INTERVAL
    /\ recentlyDisconnected' =
          [u \in {v \in DOMAIN recentlyDisconnected :
                     ~(now - recentlyDisconnected[v].timestamp
                          > ROOM_EXPIRY_TIME)}
              |-> recentlyDisconnected[u]]
    /\ rooms' =
          [r \in {q \in DOMAIN rooms :
                     ~(/\ now - rooms[q].lastActivity > ROOM_EXPIRY_TIME
                       /\ Len(rooms[q].players) = 0)}
              |-> rooms[r]]
    /\ out' = <<>>
    /\ UNCHANGED <<socketVars, nextRoomId, now, historyVars>>

Cleanup ==
    /\ now = nextCleanup
    /\ nextCleanup' = nextCleanup + ROOM_CLEANUP_INTERVAL
    /\ recentlyDisconnected' =
          [u \in {v \in DOMAIN recentlyDisconnected :
                     ~(now - recentlyDisconnected[v].timestamp
                          > ROOM_GRACE_PERIOD)}
              |-> recentlyDisconnected[u]]
    /\ rooms' =
          [r \in {q \in DOMAIN rooms :
                     ~(/\ now - rooms[q].lastActivity > ROOM_EXPIRY_TIME
                       /\ Len(rooms[q].players) = 0)}
              |-> rooms[r]]
    /\ out' = <<>>
    /\ UNCHANGED <<socketVars, nextRoomId, now, historyVars>>

\* --------------------------------------------------------------------- clock
\* The instants at which something happens, within each cleanup period.
Offsets == {0,
            ROOM_CLEANUP_INTERVAL - ROOM_EXPIRY_TIME - 1,
            ROOM_CLEANUP_INTERVAL - ROOM_EXPIRY_TIME,
            ROOM_CLEANUP_INTERVAL - ROOM_GRACE_PERIOD - 1,
            ROOM_CLEANUP_INTERVAL - ROOM_GRACE_PERIOD}

Instants ==
    {t \in {StartTime + k * ROOM_CLEANUP_INTERVAL + o :
               k \in 0..MaxPeriods, o \in Offsets} :
        t <= StartTime + MaxPeriods * ROOM_CLEANUP_INTERVAL}

\* Date.now() moves on; the cleanup timer fires before it passes nextCleanup
Advance(t) ==
    /\ t > now
    /\ t <= nextCleanup
    /\ now' = t
    /\ out' = <<>>
    /\ UNCHANGED <<rooms, recentlyDisconnected, socketVars, nextRoomId,
                   nextCleanup, historyVars>>

\* ------------------------------------------------------------ specifications
\* Two rooms and two usernames: the clients move between the rooms, within
\* one instant and without shooting.
Names2 == {UsernameSeq[1], UsernameSeq[2]}

Next ==
    \/ \E c \in Conns, u \in Names2 : Connect(c, u)
    \/ \E c \in Conns : CreateRoom(c, clientName[c])
    \/ \E c \in Conns, r \in {CREATE} \cup RoomIds, p \in SpawnPoints :
          JoinRoom(c, r, clientName[c], p)
    \/ \E c \in Conns : Disconnect(c)
    \/ \E c \in Conns, r \in RoomIds : StartGame(c, r)
    \/ GameUpdate

Spec == Init /\ [][Next]_vars

\* One room over time: the clock, the cleanup interval and the update rate.
OneRoom == {1}

NextClock ==
    \/ \E c \in Conns, u \in Names2 : Connect(c, u)
    \/ \E c \in Conns : nextRoomId = 1 /\ CreateRoom(c, clientName[c])
    \/ \E c \in Conns, r \in OneRoom, p \in SpawnPoints :
          JoinRoom(c, r, clientName[c], p)
    \/ \E c \in Conns : Disconnect(c)
    \/ Cleanup
    \/ \E t \in Instants : Advance(t)

SpecClock == Init /\ [][NextClock]_vars

\* One room and three clients with a username each: the game, within one
\* instant. A projectile id is one already in flight or the next unused one.
FreshIds(projectiles) ==
    {id \in ProjectileIds :
        \A j \in 1..(id - 1) :
            \E k \in 1..Len(projectiles) : projectiles[k].id = j}

NextGame ==
    \/ \E c \in Conns : c <= Len(UsernameSeq) /\ Connect(c, UsernameSeq[c])
    \/ \E c \in Conns : nextRoomId = 1 /\ CreateRoom(c, clientName[c])
    \/ \E c \in Conns, r \in OneRoom, p \in SpawnPoints :
          JoinRoom(c, r, clientName[c], p)
    \/ \E c \in Conns, r \in OneRoom : StartGame(c, r)
    \/ \E c \in Conns, r \in OneRoom, s \in Shots :
          \E id \in FreshIds(IF r \in DOMAIN rooms THEN rooms[r].projectiles
                             ELSE <<>>) :
             Shoot(c, r, s.position, s.angle, id)
    \/ GameUpdate

SpecGame == Init /\ [][NextGame]_vars

\* One room and its players' updates around the update interval.
MoveInstants ==
    {StartTime + k * MIN_UPDATE_INTERVAL - d : k \in 1..2, d \in 0..1}

NextMove ==
    \/ \E c \in Conns : c <= Len(UsernameSeq) /\ Connect(c, UsernameSeq[c])
    \/ \E c \in Conns : nextRoomId = 1 /\ CreateRoom(c, clientName[c])
    \/ \E c \in Conns, r \in OneRoom, p \in SpawnPoints :
          JoinRoom(c, r, clientName[c], p)
    \/ \E c \in Conns, r \in OneRoom, m \in Moves :
          UpdatePlayer(c, r, m.position, m.rotation)
    \/ \E t \in MoveInstants : Advance(t)

SpecMove == Init /\ [][NextMove]_vars

\* One room that the players join once, before the game starts, players that
\* move to the wall once, and shots along the line y = 300 towards the wall
\* x = MAP_WIDTH: they land on a player, at exactly the sum of the radii from
\* a player at the wall, on the boundary and beyond it.
FlightShots ==
    {[position |-> <<x, 300>>, angle |-> 0] :
        x \in {MAP_WIDTH - 2 * PROJECTILE_SPEED
                         - (PLAYER_RADIUS + PROJECTILE_RADIUS),
               MAP_WIDTH - PROJECTILE_RADIUS - PROJECTILE_SPEED,
               MAP_WIDTH - PROJECTILE_SPEED}}

FlightMoves == {m \in Moves : m.position[1] > MAP_WIDTH - PLAYER_RADIUS}

\* the first connection does the shooting
FlightShooters == {c \in Conns : c = 1}

NextFlight ==
    \/ \E c \in Conns : c <= Len(UsernameSeq) /\ Connect(c, UsernameSeq[c])
    \/ \E c \in Conns : nextRoomId = 1 /\ CreateRoom(c, clientName[c])
    \/ \E c \in Conns, r \in OneRoom, p \in SpawnPoints :
          /\ r \in DOMAIN rooms
          /\ rooms[r].status = "waiting"
          /\ ~Has(rooms[r].players, c)
          /\ JoinRoom(c, r, clientName[c], p)
    \/ \E c \in Conns, r \in OneRoom : StartGame(c, r)
    \/ \E c \in Conns, r \in OneRoom, m \in FlightMoves :
          UpdatePlayer(c, r, m.position, m.rotation)
    \/ \E c \in FlightShooters, r \in OneRoom, s \in FlightShots :
          \E id \in FreshIds(IF r \in DOMAIN rooms THEN rooms[r].projectiles
                             ELSE <<>>) :
             Shoot(c, r, s.position, s.angle, id)
    \/ GameUpdate

SpecFlight == Init /\ [][NextFlight]_vars

\* Two rooms side by side: players join waiting rooms, also a second one,
\* spawn on the same spot in each, and the first connection shoots at that
\* spot.
RoomShots == {s \in FlightShots : s.position[1] < MAP_WIDTH - PLAYER_RADIUS}

\* the odd connections create the rooms, the others join them
RoomCreators == {c \in Conns : c % 2 = 1}

NextRooms ==
    \/ \E c \in Conns : c <= Len(UsernameSeq) /\ Connect(c, UsernameSeq[c])
    \/ \E c \in RoomCreators : ~UserHasRoom(clientName[c])
                               /\ CreateRoom(c, clientName[c])
    \/ \E c \in Conns \ RoomCreators, r \in RoomIds, p \in SpawnPoints :
          /\ r \in DOMAIN rooms
          /\ rooms[r].status = "waiting"
          /\ ~Has(rooms[r].players, c)
          /\ JoinRoom(c, r, clientName[c], p)
    \/ \E c \in RoomCreators, r \in RoomIds : StartGame(c, r)
    \/ \E c \in FlightShooters, r \in RoomIds, s \in RoomShots :
          \E id \in FreshIds(IF r \in DOMAIN rooms THEN rooms[r].projectiles
                             ELSE <<>>) :
             Shoot(c, r, s.position, s.angle, id)
    \/ GameUpdate

SpecRooms == Init /\ [][NextRooms]_vars

\* The two rooms, and players that report a position of null.
NextFault ==
    \/ NextRooms
    \/ \E c \in Conns, r \in RoomIds : UpdatePlayer(c, r, NullPosition, 0)

SpecFault == Init /\ [][NextFault]_vars

\* One room with two players that can hit each other: the creator moves to
\* the wall and shoots at the spawn point, the other player stays on the
\* spawn point and shoots at the wall.
DuelConns == {c \in Conns : c <= 2}

DuelShots(c) ==
    {s \in FlightShots :
        IF c = 1
        THEN s.position[1] < MAP_WIDTH - PLAYER_RADIUS
        ELSE s.position[1] = MAP_WIDTH - PROJECTILE_RADIUS - PROJECTILE_SPEED}

NextDuel ==
    \/ \E c \in DuelConns : Connect(c, UsernameSeq[c])
    \/ \E c \in DuelConns : nextRoomId = 1 /\ c = 1
                            /\ CreateRoom(c, clientName[c])
    \/ \E c \in DuelConns, r \in OneRoom, p \in SpawnPoints :
          /\ r \in DOMAIN rooms
          /\ rooms[r].status = "waiting"
          /\ ~Has(rooms[r].players, c)
          /\ JoinRoom(c, r, clientName[c], p)
    \/ \E c \in DuelConns, r \in OneRoom : StartGame(c, r)
    \/ \E c \in DuelConns, r \in OneRoom, m \in FlightMoves :
          c = 1 /\ UpdatePlayer(c, r, m.position, m.rotation)
    \/ \E c \in DuelConns : Disconnect(c)
    \/ \E c \in DuelConns, r \in OneRoom :
          \E s \in DuelShots(c),
             id \in FreshIds(IF r \in DOMAIN rooms
                            THEN rooms[r].projectiles ELSE <<>>) :
             Shoot(c, r, s.position, s.angle, id)
    \/ GameUpdate

SpecDuel == Init /\ [][NextDuel]_vars

\* One room that is ticked fairly, with one projectile in flight at a time;
\* the shots fly for one tick or for several, and one shot has a position
\* without coordinates ({} in the payload).
UnusedIds(projectiles) ==
    {id \in FreshIds(projectiles) :
        \A k \in 1..Len(projectiles) : projectiles[k].id # id}

LiveShots ==
    {s \in FlightShots : s.position[1] < MAP_WIDTH - PROJECTILE_SPEED}
    \cup {[position |-> <<NaN, NaN>>, angle |-> 0]}

NextLive ==
    \/ \E c \in DuelConns : Connect(c, UsernameSeq[c])
    \/ \E c \in DuelConns : nextRoomId = 1 /\ c = 1
                            /\ CreateRoom(c, clientName[c])
    \/ \E c \in DuelConns, r \in OneRoom, p \in SpawnPoints :
          /\ r \in DOMAIN rooms
          /\ rooms[r].status = "waiting"
          /\ ~Has(rooms[r].players, c)
          /\ JoinRoom(c, r, clientName[c], p)
    \/ \E c \in DuelConns, r \in OneRoom : StartGame(c, r)
    \/ \E c \in DuelConns, r \in OneRoom, s \in LiveShots :
          /\ r \in DOMAIN rooms
          /\ rooms[r].projectiles = <<>>
          /\ \E id \in UnusedIds(rooms[r].projectiles) :
                Shoot(c, r, s.position, s.angle, id)
    \/ GameUpdate

\* setInterval runs the update loop again and again
SpecLive == Init /\ [][NextLive]_vars /\ WF_vars(GameUpdate)

\* -------------------------------------------------------------------- claims
\* the only event emitted is an error sent to connection c alone
ErrorTo(c, events) ==
    /\ Len(events) = 1
    /\ events[1].ev = "error"
    /\ events[1].kind = "socket"
    /\ events[1].conn = c

\* C1: a startGame request puts the room in 'playing' exactly when the
\* requester is the room's creatorId and the room has at least 2 players;
\* every other startGame request is answered with an error to the requester
\* and changes no room; and no other step turns a room to 'playing'.
C1_StartGame ==
    [][/\ \A c \in Conns, r \in RoomIds :
             StartGame(c, r) =>
                IF /\ r \in DOMAIN rooms
                   /\ c = rooms[r].creatorId
                   /\ Len(rooms[r].players) >= 2
                THEN rooms'[r].status = "playing"
                ELSE rooms' = rooms /\ ErrorTo(c, out')
       /\ \A r \in (DOMAIN rooms) \cap (DOMAIN rooms') :
             (rooms[r].status # "playing" /\ rooms'[r].status = "playing") =>
                \E c \in Conns :
                   /\ StartGame(c, r)
                   /\ c = rooms[r].creatorId
                   /\ Len(rooms[r].players) >= 2]_vars

\* a game has just been started by the creator of a room of two or more
C1_Witness ==
    \E r \in DOMAIN rooms :
       /\ rooms[r].status = "playing"
       /\ Len(rooms[r].players) >= 2
       /\ Len(out) = 1
       /\ out[1].ev = "gameStarted"
       /\ out[1].room = r
       /\ out[1].conn = rooms[r].creatorId

\* C2: in every room with players, creatorId is the id of a player of the
\* room, and that player is marked isCreator.
C2_CreatorInRoom ==
    \A r \in DOMAIN rooms :
       Len(rooms[r].players) > 0 =>
          /\ Has(rooms[r].players, rooms[r].creatorId)
          /\ Get(rooms[r].players, rooms[r].creatorId).isCreator

\* C3: when the connection that is a room's creatorId disconnects and other
\* players remain in the room, the first of them becomes creatorId, is marked
\* isCreator, and a creatorChanged naming it is broadcast before playerLeft.
C3_CreatorMigrates ==
    [][\A c \in Conns :
          Disconnect(c) =>
             \A r \in DOMAIN rooms :
                LET rest == MapDelete(rooms[r].players, c)
                IN  (rooms[r].creatorId = c /\ Len(rest) > 0) =>
                       /\ rooms'[r].creatorId = rest[1].id
                       /\ Has(rooms'[r].players, rest[1].id)
                       /\ Get(rooms'[r].players, rest[1].id).isCreator
                       /\ Len(out') = 2
                       /\ out'[1].ev = "creatorChanged"
                       /\ out'[1].kind = "room"
                       /\ out'[1].room = r
                       /\ out'[1].who = rest[1].id
                       /\ out'[2].ev = "playerLeft"]_vars

\* C4: a join into room r under username u is accepted within the grace
\* period after a creator of r named u disconnected => afterwards the joiner
\* is creatorId and isCreator and no other player of r is marked isCreator.
C4_CreatorRestored ==
    [][\A c \in Conns, r \in RoomIds, u \in Usernames, p \in SpawnPoints :
          (/\ <<r, u>> \in DOMAIN creatorLeft
           /\ now - creatorLeft[<<r, u>>] <= ROOM_GRACE_PERIOD
           /\ Len(out') = 2
           /\ out'[1].ev = "roomJoined"
           /\ JoinRoom(c, r, u, p)) =>
             /\ rooms'[r].creatorId = c
             /\ \A i \in 1..Len(rooms'[r].players) :
                   rooms'[r].players[i].isCreator
                      <=> (rooms'[r].players[i].id = c)]_vars

\* C5: a join under a username whose disconnect from that room is more than
\* the grace period in the past is handled as a new player's join: it is
\* rejected if the username is present under another id, and otherwise the
\* joiner is not marked isCreator, creatorId stays and the entry is kept.
C5_GraceWindow ==
    [][\A c \in Conns, r \in RoomIds, u \in Usernames, p \in SpawnPoints :
          (/\ r \in DOMAIN rooms
           /\ u \in DOMAIN recentlyDisconnected
           /\ recentlyDisconnected[u].roomId = r
           /\ now - recentlyDisconnected[u].timestamp > ROOM_GRACE_PERIOD
           /\ JoinRoom(c, r, u, p)) =>
             IF \E i \in 1..Len(rooms[r].players) :
                   /\ rooms[r].players[i].username = u
                   /\ rooms[r].players[i].id # c
             THEN ErrorTo(c, out') /\ rooms' = rooms
             ELSE /\ rooms'[r].creatorId = rooms[r].creatorId
                  /\ ~Get(rooms'[r].players, c).isCreator
                  /\ recentlyDisconnected' = recentlyDisconnected]_vars

\* C6: no step adds a player to a room that is in 'playing' status.
C6_NoLateJoin ==
    [][\A r \in (DOMAIN rooms) \cap (DOMAIN rooms') :
          rooms[r].status = "playing" =>
             Ids(rooms'[r].players) \subseteq Ids(rooms[r].players)]_vars

\* C7: a join under a username that a player of the room holds under another
\* connection id, when no recentlyDisconnected entry of that username names
\* the room, is answered with an error to the requester and changes neither
\* the rooms (players, creatorId, lastActivity) nor recentlyDisconnected.
C7_UsernameTaken ==
    [][\A c \in Conns, r \in RoomIds, u \in Usernames, p \in SpawnPoints :
          (/\ r \in DOMAIN rooms
           /\ \E i \in 1..Len(rooms[r].players) :
                 /\ rooms[r].players[i].username = u
                 /\ rooms[r].players[i].id # c
           /\ ~(/\ u \in DOMAIN recentlyDisconnected
                /\ recentlyDisconnected[u].roomId = r)
           /\ JoinRoom(c, r, u, p)) =>
             /\ ErrorTo(c, out')
             /\ rooms' = rooms
             /\ recentlyDisconnected' = recentlyDisconnected]_vars

\* a join has just been refused because the username is taken
C7_Witness ==
    /\ Len(out) = 1
    /\ out[1].ev = "error"
    /\ out[1].msg = "Username already taken in this room"
    /\ \E r \in DOMAIN rooms :
          \E i \in 1..Len(rooms[r].players) :
             /\ rooms[r].players[i].username = clientName[out[1].conn]
             /\ rooms[r].players[i].id # out[1].conn

\* C8: a join naming a room id that is not in the room table is answered with
\* an error to the requester and changes no room, no recentlyDisconnected
\* entry and no socket's groups.
C8_UnknownRoom ==
    [][\A c \in Conns, r \in {CREATE} \cup RoomIds, u \in Usernames,
          p \in SpawnPoints :
          (r \notin DOMAIN rooms /\ JoinRoom(c, r, u, p)) =>
             /\ ErrorTo(c, out')
             /\ rooms' = rooms
             /\ recentlyDisconnected' = recentlyDisconnected
             /\ socketRooms' = socketRooms
             /\ socketData' = socketData]_vars

\* a join has just been refused because the room is unknown
C8_Witness ==
    /\ Len(out) = 1
    /\ out[1].ev = "error"
    /\ out[1].msg = "Room not found"
    /\ connState[out[1].conn] = "open"

\* C9 as claimed: no two rooms of the table were created by one username.
C9_OneRoomPerCreator ==
    \A r1 \in DOMAIN rooms, r2 \in DOMAIN rooms :
       r1 # r2 => createdBy[r1] # createdBy[r2]

\* C9 as amended: a createRoom under a username that some player of some room
\* holds, whatever that room's status, is answered with an error to the
\* requester and creates no room; a room is only ever added for a username
\* that no player of any room holds.
C9_CreateWhilePresent ==
    [][/\ \A c \in Conns, u \in Usernames :
             (/\ \E r \in DOMAIN rooms :
                    \E i \in 1..Len(rooms[r].players) :
                       rooms[r].players[i].username = u
              /\ CreateRoom(c, u)) =>
                rooms' = rooms /\ ErrorTo(c, out')
       /\ \A q \in (DOMAIN rooms') \ (DOMAIN rooms) :
             \A r \in DOMAIN rooms :
                \A i \in 1..Len(rooms[r].players) :
                   rooms[r].players[i].username # createdBy'[q]]_vars

\* a createRoom has just been refused while the username's room is playing
C9_Witness ==
    /\ Len(out) = 1
    /\ out[1].ev = "error"
    /\ out[1].msg = "You already have an active room"
    /\ \E r \in DOMAIN rooms :
          /\ rooms[r].status = "playing"
          /\ \E i \in 1..Len(rooms[r].players) :
                /\ rooms[r].players[i].username = clientName[out[1].conn]
                /\ rooms[r].players[i].id # out[1].conn

\* the events of a kind emitted for a room
EventsOf(events, ev, r) ==
    {k \in 1..Len(events) : events[k].ev = ev /\ events[k].room = r}

\* C10: a tick in which 2 of the 3 players of a 'playing' room take lethal
\* damage leaves the room 'finished', and emits exactly one gameOver for the
\* room, naming the one player left in its player map.
C10_SingleSurvivor ==
    [][\A r \in DOMAIN rooms :
          (/\ rooms[r].status = "playing"
           /\ Len(rooms[r].players) = 3
           /\ Cardinality(EventsOf(out', "playerDied", r)) = 2
           /\ GameUpdate) =>
             /\ rooms'[r].status = "finished"
             /\ Len(rooms'[r].players) = 1
             /\ Cardinality(EventsOf(out', "gameOver", r)) = 1
             /\ \A k \in EventsOf(out', "gameOver", r) :
                   /\ out'[k].who = rooms'[r].players[1].id
                   /\ out'[k].msg = rooms'[r].players[1].username]_vars

\* a tick has just removed two of a room's three players and ended the game
C10_Witness ==
    \E r \in DOMAIN rooms :
       /\ rooms[r].status = "finished"
       /\ Len(rooms[r].players) = 1
       /\ Cardinality(EventsOf(out, "playerDied", r)) = 2
       /\ Cardinality(EventsOf(out, "gameOver", r)) = 1
       /\ \A k \in EventsOf(out, "playerDied", r) :
             out[k].who \in Conns \ Ids(rooms[r].players)

\* C11: in a tick, when a hit kills a player of a 'playing' room and exactly
\* one player of the room is left after that death, the room is 'finished'
\* after the tick and the next event is a gameOver, broadcast to the room,
\* carrying the id and the username of the player left.
C11_GameOver ==
    [][\A r \in DOMAIN rooms :
          \A k \in EventsOf(out', "playerDied", r) :
             LET died == {out'[j].who :
                            j \in {i \in EventsOf(out', "playerDied", r) :
                                      i <= k}}
                 left == Ids(rooms[r].players) \ died
             IN  Cardinality(left) = 1 =>
                    /\ rooms'[r].status = "finished"
                    /\ k < Len(out')
                    /\ out'[k + 1].ev = "gameOver"
                    /\ out'[k + 1].kind = "room"
                    /\ out'[k + 1].room = r
                    /\ out'[k + 1].who \in left
                    /\ out'[k + 1].msg =
                          Get(rooms[r].players, out'[k + 1].who).username]_vars

\* a tick has just killed one of a room's two players and ended the game
C11_Witness ==
    \E r \in DOMAIN rooms :
       /\ rooms[r].status = "finished"
       /\ Len(rooms[r].players) = 1
       /\ Cardinality(EventsOf(out, "playerDied", r)) = 1
       /\ \E k \in EventsOf(out, "gameOver", r) :
             /\ out[k].who = rooms[r].players[1].id
             /\ out[k].msg = rooms[r].players[1].username

\* C12: no room in 'playing' status has exactly one player (a room is only
\* started with two or more, so such a room has dropped to one).
C12_NoLonePlaying ==
    \A r \in DOMAIN rooms :
       rooms[r].status = "playing" => Len(rooms[r].players) # 1

\* C13: a room that is 'finished' and stays in the table stays 'finished'.
C13_FinishedTerminal ==
    [][\A r \in (DOMAIN rooms) \cap (DOMAIN rooms') :
          rooms[r].status = "finished" =>
             rooms'[r].status = "finished"]_vars

\* C14: a pass of the cleanup interval deletes exactly the rooms that have no
\* player and whose lastActivity is more than ROOM_EXPIRY_TIME in the past,
\* and leaves the other rooms as they are; no other step deletes a room, so a
\* room with a player is never deleted.
C14_Reaper ==
    [][/\ Cleanup =>
             /\ DOMAIN rooms' =
                   {r \in DOMAIN rooms :
                       ~(/\ Len(rooms[r].players) = 0
                         /\ now - rooms[r].lastActivity > ROOM_EXPIRY_TIME)}
             /\ \A r \in DOMAIN rooms' : rooms'[r] = rooms[r]
       /\ \A r \in (DOMAIN rooms) \ (DOMAIN rooms') :
             /\ Len(rooms[r].players) = 0
             /\ now - rooms[r].lastActivity > ROOM_EXPIRY_TIME
             /\ now = nextCleanup]_vars

\* a pass has just deleted the only room, which was empty and expired
C14_Witness ==
    /\ rooms = EmptyMap
    /\ nextRoomId > 1
    /\ nextCleanup = now + ROOM_CLEANUP_INTERVAL
    /\ out = <<>>

\* C15: a pass of the cleanup interval removes exactly the
\* recentlyDisconnected entries whose timestamp is more than ROOM_GRACE_PERIOD
\* in the past and keeps the others unchanged; an accepted join that found an
\* entry of its username naming the room removes that entry.
C15_EntriesPurged ==
    [][/\ Cleanup =>
             /\ DOMAIN recentlyDisconnected' =
                   {u \in DOMAIN recentlyDisconnected :
                       now - recentlyDisconnected[u].timestamp
                          <= ROOM_GRACE_PERIOD}
             /\ \A u \in DOMAIN recentlyDisconnected' :
                   recentlyDisconnected'[u] = recentlyDisconnected[u]
       /\ \A c \in Conns, r \in RoomIds, u \in Usernames, p \in SpawnPoints :
             (/\ u \in DOMAIN recentlyDisconnected
              /\ recentlyDisconnected[u].roomId = r
              /\ Len(out') = 2
              /\ out'[1].ev = "roomJoined"
              /\ JoinRoom(c, r, u, p)) =>
                u \notin DOMAIN recentlyDisconnected']_vars

\* a pass has just purged one entry and kept a younger one
C15_Witness ==
    /\ nextCleanup = now + ROOM_CLEANUP_INTERVAL
    /\ out = <<>>
    /\ \E u \in DOMAIN recentlyDisconnected :
          now - recentlyDisconnected[u].timestamp <= ROOM_GRACE_PERIOD
    /\ \E u \in Usernames \ DOMAIN recentlyDisconnected :
          \E r \in DOMAIN creatorLeft :
             /\ r[2] = u
             /\ now - creatorLeft[r] > ROOM_GRACE_PERIOD

\* the only event emitted is c's playerUpdated, sent to the others of room r
UpdateSent(c, r, events) ==
    /\ Len(events) = 1
    /\ events[1].ev = "playerUpdated"
    /\ events[1].kind = "others"
    /\ events[1].room = r
    /\ events[1].conn = c

\* C16: a room's last-update time of a player changes only when an update of
\* that player is accepted, to the time of that update; an updatePlayer less
\* than MIN_UPDATE_INTERVAL after it changes no room and emits nothing; an
\* updatePlayer of a player of the room that is not that early is accepted,
\* however recent the other players' updates are.
C16_RateLimit ==
    [][/\ \A r \in (DOMAIN rooms) \cap (DOMAIN rooms'), c \in Conns :
             rooms'[r].lastPlayerUpdates[c] # rooms[r].lastPlayerUpdates[c] =>
                /\ UpdateSent(c, r, out')
                /\ rooms'[r].lastPlayerUpdates[c] = now
       /\ \A c \in Conns, r \in DOMAIN rooms, m \in Moves :
             (/\ rooms[r].lastPlayerUpdates[c] > 0
              /\ now - rooms[r].lastPlayerUpdates[c] < MIN_UPDATE_INTERVAL
              /\ UpdatePlayer(c, r, m.position, m.rotation)) =>
                rooms' = rooms /\ out' = <<>>
       /\ \A c \in Conns, r \in DOMAIN rooms, m \in Moves :
             (/\ Has(rooms[r].players, c)
              /\ now - rooms[r].lastPlayerUpdates[c] >= MIN_UPDATE_INTERVAL
              /\ UpdatePlayer(c, r, m.position, m.rotation)) =>
                /\ UpdateSent(c, r, out')
                /\ Get(rooms'[r].players, c).position = m.position
                /\ Get(rooms'[r].players, c).rotation = m.rotation
                /\ rooms'[r].lastPlayerUpdates[c] = now
                /\ rooms'[r].lastActivity = now]_vars

\* a player's second update has just been accepted while another player's
\* update is less than MIN_UPDATE_INTERVAL old
C16_Witness ==
    \E r \in DOMAIN rooms, c \in Conns, d \in Conns :
       /\ c # d
       /\ UpdateSent(c, r, out)
       /\ rooms[r].lastPlayerUpdates[c] = now
       /\ now > StartTime + MIN_UPDATE_INTERVAL
       /\ rooms[r].lastPlayerUpdates[d] > 0
       /\ rooms[r].lastPlayerUpdates[d] < now
       /\ now - rooms[r].lastPlayerUpdates[d] < MIN_UPDATE_INTERVAL

\* C17: a shoot addressed to a room id that is not in the table, or to a room
\* that is not 'playing', changes nothing and emits nothing; a room's
\* projectile list only grows while the room is 'playing', by one projectile
\* announced with projectileCreated.
C17_ShootOnlyPlaying ==
    [][/\ \A c \in Conns, r \in RoomIds, s \in Shots, id \in ProjectileIds :
             (/\ ~(r \in DOMAIN rooms /\ rooms[r].status = "playing")
              /\ Shoot(c, r, s.position, s.angle, id)) =>
                /\ out' = <<>>
                /\ UNCHANGED <<rooms, recentlyDisconnected, socketVars,
                               nextRoomId, clockVars>>
       /\ \A r \in (DOMAIN rooms) \cap (DOMAIN rooms') :
             Len(rooms'[r].projectiles) > Len(rooms[r].projectiles) =>
                /\ rooms[r].status = "playing"
                /\ Len(rooms'[r].projectiles) = Len(rooms[r].projectiles) + 1
                /\ Len(out') = 1
                /\ out'[1].ev = "projectileCreated"
                /\ out'[1].room = r]_vars

\* a finished room whose players are connected and can still send shoot:
\* nothing is in flight and the last step emitted nothing
C17_Witness ==
    \E r \in DOMAIN rooms :
       /\ rooms[r].status = "finished"
       /\ rooms[r].projectiles = <<>>
       /\ out = <<>>
       /\ \E c \in Ids(rooms[r].players) : connState[c] = "open"

\* C18: every rejected request is answered with an error event sent to the
\* requester alone: a createRoom under a username a player holds, a joinRoom
\* that adds no player, a startGame that starts no game, and a shoot at a room
\* that is not 'playing'.
C18_RejectionsAnswered ==
    [][/\ \A c \in Conns, r \in RoomIds, s \in Shots, id \in ProjectileIds :
             (/\ ~(r \in DOMAIN rooms /\ rooms[r].status = "playing")
              /\ Shoot(c, r, s.position, s.angle, id)) =>
                ErrorTo(c, out')
       /\ \A c \in Conns, r \in RoomIds :
             (/\ ~(/\ r \in DOMAIN rooms
                   /\ c = rooms[r].creatorId
                   /\ Len(rooms[r].players) >= 2)
              /\ StartGame(c, r)) =>
                ErrorTo(c, out')
       /\ \A c \in Conns, r \in {CREATE} \cup RoomIds, u \in Usernames,
             p \in SpawnPoints :
             (/\ \/ r \notin DOMAIN rooms
                 \/ /\ \E i \in 1..Len(rooms[r].players) :
                          /\ rooms[r].players[i].username = u
                          /\ rooms[r].players[i].id # c
                    /\ ~(/\ u \in DOMAIN recentlyDisconnected
                         /\ recentlyDisconnected[u].roomId = r)
              /\ JoinRoom(c, r, u, p)) =>
                ErrorTo(c, out')
       /\ \A c \in Conns, u \in Usernames :
             (/\ \E r \in DOMAIN rooms :
                    \E i \in 1..Len(rooms[r].players) :
                       rooms[r].players[i].username = u
              /\ CreateRoom(c, u)) =>
                ErrorTo(c, out')]_vars

\* every player's health is an integer from 0 to 100
HealthInRange ==
    \A r \in DOMAIN rooms :
       \A i \in 1..Len(rooms[r].players) :
          rooms[r].players[i].health \in 0..FULL_HEALTH

\* the hits on a player among the events of a tick, up to event k
HitsOn(events, r, id, k) ==
    Cardinality({j \in EventsOf(events, "projectileHit", r) :
                    events[j].who = id /\ j <= k})

\* C19: every player's health is an integer in [0, 100]; in a tick each hit
\* on a player takes DAMAGE from the player's health, not below 0 (the health
\* playerUpdated reports after the hit), a player removed was brought to 0,
\* and a player that was not hit keeps its health.
C19_Health ==
    /\ []HealthInRange
    /\ [][((\E q \in DOMAIN rooms : rooms[q].status = "playing")
            /\ GameUpdate) =>
            \A r \in DOMAIN rooms :
               \A i \in 1..Len(rooms[r].players) :
                  LET p == rooms[r].players[i]
                      hits == HitsOn(out', r, p.id, Len(out'))
                  IN  /\ Has(rooms'[r].players, p.id) =>
                            Get(rooms'[r].players, p.id).health
                               = Max(0, p.health - hits * DAMAGE)
                      /\ ~Has(rooms'[r].players, p.id) =>
                            Max(0, p.health - hits * DAMAGE) = 0
                      /\ \A k \in EventsOf(out', "playerUpdated", r) :
                            out'[k].who = p.id =>
                               out'[k].n =
                                  Max(0, p.health
                                         - HitsOn(out', r, p.id, k + 1)
                                           * DAMAGE)]_vars

\* a tick has just hit one player, who lives on with less health, and has
\* left another player of the room alone
C19_Witness ==
    \E r \in DOMAIN rooms :
       \E k \in EventsOf(out, "playerUpdated", r) :
          /\ Has(rooms[r].players, out[k].who)
          /\ Get(rooms[r].players, out[k].who).health = out[k].n
          /\ out[k].n > 0
          /\ out[k].n < FULL_HEALTH - DAMAGE
          /\ \E i \in 1..Len(rooms[r].players) :
                /\ rooms[r].players[i].id # rooms[r].creatorId
                /\ HitsOn(out, r, rooms[r].players[i].id, Len(out)) = 0
                /\ rooms[r].players[i].health < FULL_HEALTH

\* C20: no room's player map holds a player whose health is 0.
C20_NoDeadPlayer ==
    \A r \in DOMAIN rooms :
       \A i \in 1..Len(rooms[r].players) :
          rooms[r].players[i].health > 0

\* a tick has just brought a player to 0 health and removed it, and the
\* room still has players
C20_Witness ==
    \E r \in DOMAIN rooms :
       \E k \in EventsOf(out, "playerUpdated", r) :
          /\ out[k].n = 0
          /\ ~Has(rooms[r].players, out[k].who)
          /\ Len(rooms[r].players) > 0
          /\ \E j \in EventsOf(out, "playerDied", r) : out[j].who = out[k].who

\* the position a projectile has after one tick
Advanced(projectile) ==
    <<projectile.position[1] + projectile.velocity[1],
      projectile.position[2] + projectile.velocity[2]>>

\* the position is outside the map by the projectile's radius
OutOfBounds(pos) ==
    \/ pos[1] - PROJECTILE_RADIUS < 0
    \/ pos[1] + PROJECTILE_RADIUS > MAP_WIDTH
    \/ pos[2] - PROJECTILE_RADIUS < 0
    \/ pos[2] + PROJECTILE_RADIUS > MAP_HEIGHT

\* the circles of a projectile at pos and of a player overlap
Overlaps(pos, player) ==
    (player.position[1] - pos[1]) * (player.position[1] - pos[1])
    + (player.position[2] - pos[2]) * (player.position[2] - pos[2])
       < (PLAYER_RADIUS + PROJECTILE_RADIUS)
         * (PLAYER_RADIUS + PROJECTILE_RADIUS)

\* the projectiles of a room that leave the map in the next tick
WallBound(room) ==
    {i \in 1..Len(room.projectiles) :
        OutOfBounds(Advanced(room.projectiles[i]))}

\* C21: in a tick of a 'playing' room every projectile is either kept or
\* removed with one projectileHit; each projectile whose advanced position is
\* outside the map is removed with a projectileHit that names no player, and
\* only the other projectiles can cost a player health, also when the
\* projectile outside the map overlaps a player that is not its owner.
C21_WallFirst ==
    [][((\E q \in DOMAIN rooms : rooms[q].status = "playing")
        /\ GameUpdate) =>
          \A r \in DOMAIN rooms :
             rooms[r].status = "playing" =>
                LET W == WallBound(rooms[r])
                    wallHits == {k \in EventsOf(out', "projectileHit", r) :
                                    out'[k].who = 0}
                IN  /\ Cardinality(wallHits) = Cardinality(W)
                    /\ \A k \in wallHits :
                          \E i \in W : rooms[r].projectiles[i].id = out'[k].n
                    /\ Len(rooms'[r].projectiles)
                          + Cardinality(EventsOf(out', "projectileHit", r))
                       = Len(rooms[r].projectiles)
                    /\ Cardinality(EventsOf(out', "playerUpdated", r))
                          <= Len(rooms[r].projectiles) - Cardinality(W)]_vars

\* a tick has just removed a projectile at the wall without touching the
\* player that stands within reach of the wall
C21_Witness ==
    \E r \in DOMAIN rooms :
       /\ EventsOf(out, "playerUpdated", r) = {}
       /\ \E k \in EventsOf(out, "projectileHit", r) : out[k].who = 0
       /\ \E i \in 1..Len(rooms[r].players) :
             /\ rooms[r].players[i].id \notin FlightShooters
             /\ rooms[r].players[i].position[1]
                   > MAP_WIDTH - PLAYER_RADIUS - PROJECTILE_RADIUS
             /\ rooms[r].players[i].health = FULL_HEALTH

\* the position touches the map boundary from inside, by the projectile's
\* radius
OnBoundary(pos) ==
    /\ ~OutOfBounds(pos)
    /\ \/ pos[1] = PROJECTILE_RADIUS
       \/ pos[1] = MAP_WIDTH - PROJECTILE_RADIUS
       \/ pos[2] = PROJECTILE_RADIUS
       \/ pos[2] = MAP_HEIGHT - PROJECTILE_RADIUS

\* C22: in a tick of a 'playing' room each projectile whose advanced position
\* is on the map boundary or beyond it is removed as a wall hit: as many
\* projectileHit events without a player are emitted, and no more projectiles
\* are kept than the others.
C22_BoundaryIsWall ==
    [][((\E q \in DOMAIN rooms : rooms[q].status = "playing")
        /\ GameUpdate) =>
          \A r \in DOMAIN rooms :
             rooms[r].status = "playing" =>
                LET W == {i \in 1..Len(rooms[r].projectiles) :
                             \/ OutOfBounds(Advanced(rooms[r].projectiles[i]))
                             \/ OnBoundary(Advanced(rooms[r].projectiles[i]))}
                    wallHits == {k \in EventsOf(out', "projectileHit", r) :
                                    out'[k].who = 0}
                IN  /\ Cardinality(wallHits) = Cardinality(W)
                    /\ Len(rooms'[r].projectiles)
                          <= Len(rooms[r].projectiles) - Cardinality(W)]_vars

\* the players of a room, other than the owner, that a projectile overlaps
\* after one tick
InReach(room, projectile) ==
    {i \in 1..Len(room.players) :
        /\ room.players[i].id # projectile.playerId
        /\ Overlaps(Advanced(projectile), room.players[i])}

\* C23: in a tick of a 'playing' room at most one player is hit per
\* projectile, and a player that owns every projectile of the room is not
\* hit; when the room has one projectile and its advanced position is inside
\* the map, the player hit is the first in insertion order, other than the
\* owner, within a distance below PLAYER_RADIUS + PROJECTILE_RADIUS of it:
\* that player loses DAMAGE, every other player is unchanged and the
\* projectile is removed; when there is no such player nobody is hit.
C23_FirstInOrder ==
    [][((\E q \in DOMAIN rooms : rooms[q].status = "playing")
        /\ GameUpdate) =>
          \A r \in DOMAIN rooms :
             rooms[r].status = "playing" =>
                LET room == rooms[r]
                    updated == EventsOf(out', "playerUpdated", r)
                IN  /\ Cardinality(updated) <= Len(room.projectiles)
                    /\ \A i \in 1..Len(room.players) :
                          (\A k \in 1..Len(room.projectiles) :
                              room.projectiles[k].playerId
                                 = room.players[i].id) =>
                             /\ \A k \in updated :
                                   out'[k].who # room.players[i].id
                             /\ Has(rooms'[r].players, room.players[i].id)
                             /\ Get(rooms'[r].players, room.players[i].id)
                                   = room.players[i]
                    /\ (/\ Len(room.projectiles) = 1
                        /\ ~OutOfBounds(Advanced(room.projectiles[1]))) =>
                          LET T == InReach(room, room.projectiles[1])
                          IN  IF T = {}
                              THEN /\ updated = {}
                                   /\ rooms'[r].players = room.players
                                   /\ Len(rooms'[r].projectiles) = 1
                              ELSE LET first == CHOOSE i \in T :
                                                   \A j \in T : i <= j
                                       hit == room.players[first]
                                   IN  /\ Cardinality(updated) = 1
                                       /\ \A k \in updated :
                                             /\ out'[k].who = hit.id
                                             /\ out'[k].n =
                                                   Max(0, hit.health - DAMAGE)
                                       /\ rooms'[r].projectiles = <<>>
                                       /\ \A i \in 1..Len(room.players) :
                                             i # first =>
                                                /\ Has(rooms'[r].players,
                                                       room.players[i].id)
                                                /\ Get(rooms'[r].players,
                                                       room.players[i].id)
                                                      = room.players[i]]_vars

\* a tick has just hit the first of two players that stand on the same spot
\* and has left the second alone
C23_Witness ==
    \E r \in DOMAIN rooms :
       /\ Cardinality(EventsOf(out, "projectileHit", r)) = 1
       /\ \E k \in EventsOf(out, "playerUpdated", r) :
             \E i \in 1..Len(rooms[r].players) :
                /\ rooms[r].players[i].id = out[k].who
                /\ rooms[r].players[i].health = out[k].n
                /\ \E j \in (i + 1)..Len(rooms[r].players) :
                      /\ rooms[r].players[j].position
                            = rooms[r].players[i].position
                      /\ rooms[r].players[j].health = FULL_HEALTH

\* the projectiles of a room whose advanced position is inside the map and
\* whose first player in reach, among the players before the tick, is the
\* i-th
AimedAt(room, i) ==
    {k \in 1..Len(room.projectiles) :
        /\ ~OutOfBounds(Advanced(room.projectiles[k]))
        /\ i \in InReach(room, room.projectiles[k])
        /\ \A j \in InReach(room, room.projectiles[k]) : i <= j}

\* C24: in a tick of a 'playing' room each projectile is resolved against
\* the players as they were before the tick: every player is hit once by
\* each projectile that reaches it first among those players, also when an
\* earlier projectile of the tick has killed the player, and at most one
\* gameOver is emitted.
C24_Snapshot ==
    [][((\E q \in DOMAIN rooms : rooms[q].status = "playing")
        /\ GameUpdate) =>
          \A r \in DOMAIN rooms :
             rooms[r].status = "playing" =>
                /\ Cardinality(EventsOf(out', "gameOver", r)) <= 1
                /\ \A i \in 1..Len(rooms[r].players) :
                      HitsOn(out', r, rooms[r].players[i].id, Len(out'))
                         = Cardinality(AimedAt(rooms[r], i))]_vars

\* C25: a tick leaves every room that is not 'playing' as it was, and in any
\* room a player that no projectile of that same room reaches keeps its
\* record, whatever the projectiles of the other rooms do.
C25_RoomsIndependent ==
    [][GameUpdate =>
          \A r \in DOMAIN rooms :
             /\ rooms[r].status # "playing" => rooms'[r] = rooms[r]
             /\ \A i \in 1..Len(rooms[r].players) :
                   (\A k \in 1..Len(rooms[r].projectiles) :
                       i \notin InReach(rooms[r], rooms[r].projectiles[k]))
                   => /\ Has(rooms'[r].players, rooms[r].players[i].id)
                      /\ Get(rooms'[r].players, rooms[r].players[i].id)
                            = rooms[r].players[i]]_vars

\* a tick has just hit a player in one room while a player of the same
\* connection stands on the same spot, unharmed, in a room that is not being
\* played
C25_Witness ==
    \E r \in DOMAIN rooms, q \in DOMAIN rooms :
       /\ r # q
       /\ rooms[q].status # "playing"
       /\ \E k \in EventsOf(out, "projectileHit", r) :
             /\ Has(rooms[q].players, out[k].who)
             /\ Get(rooms[q].players, out[k].who).health = FULL_HEALTH
             /\ \E i \in 1..Len(rooms[r].players) :
                   /\ rooms[r].players[i].id = out[k].who
                   /\ rooms[r].players[i].position
                         = Get(rooms[q].players, out[k].who).position

\* C27: a connection is a member of at most one room: its id is a key of at
\* most one room's player map and it belongs to at most one broadcast group.
C27_OneRoomPerConnection ==
    \A c \in Conns :
       /\ Cardinality({r \in DOMAIN rooms : Has(rooms[r].players, c)}) <= 1
       /\ Cardinality(socketRooms[c]) <= 1

\* C28: a createRoom that is not answered with an error adds exactly one
\* room; it is 'waiting', has no projectiles, its only player is the
\* requester with health 100 and isCreator set, and its creatorId is the
\* requester; roomCreated is sent once, to the requester alone, like every
\* event of the handler; every room that existed is left as it was.
C28_CreateRoom ==
    [][\A c \in Conns :
          (connState[c] = "open"
           /\ CreateRoom(c, clientName[c])
           /\ ~ErrorTo(c, out')) =>
             /\ DOMAIN rooms \subseteq DOMAIN rooms'
             /\ \A r \in DOMAIN rooms : rooms'[r] = rooms[r]
             /\ Cardinality(DOMAIN rooms' \ DOMAIN rooms) = 1
             /\ \A n \in DOMAIN rooms' \ DOMAIN rooms :
                   /\ rooms'[n].status = "waiting"
                   /\ rooms'[n].projectiles = <<>>
                   /\ rooms'[n].creatorId = c
                   /\ Len(rooms'[n].players) = 1
                   /\ rooms'[n].players[1].id = c
                   /\ rooms'[n].players[1].health = 100
                   /\ rooms'[n].players[1].isCreator
                   /\ Cardinality(EventsOf(out', "roomCreated", n)) = 1
             /\ \A k \in 1..Len(out') :
                   out'[k].kind = "socket" /\ out'[k].conn = c]_vars

\* a room has just been created next to a room that another connection
\* created and is still in
C28_Witness ==
    /\ Len(out) > 0
    /\ out[1].ev = "roomCreated"
    /\ \E r \in DOMAIN rooms :
          /\ r # out[1].room
          /\ rooms[r].creatorId # out[1].conn
          /\ Has(rooms[r].players, rooms[r].creatorId)

\* C29: an updatePlayer from a player of the room, sent no sooner than the
\* update interval after that player's last accepted one, sets the sender's
\* position and rotation to exactly the reported values, keeps the sender's
\* id, health, username and isCreator, keeps every other player and the
\* order of the players, and emits one playerUpdated, to the other members
\* of the room and not to the sender.
C29_UpdatePlayer ==
    [][\A c \in Conns, r \in DOMAIN rooms, m \in Moves :
          (/\ connState[c] = "open"
           /\ Has(rooms[r].players, c)
           /\ now - rooms[r].lastPlayerUpdates[c] >= MIN_UPDATE_INTERVAL
           /\ UpdatePlayer(c, r, m.position, m.rotation)) =>
             /\ Len(rooms'[r].players) = Len(rooms[r].players)
             /\ \A i \in 1..Len(rooms[r].players) :
                   LET old == rooms[r].players[i]
                       new == rooms'[r].players[i]
                   IN  IF old.id = c
                       THEN /\ new.position = m.position
                            /\ new.rotation = m.rotation
                            /\ new.id = c
                            /\ new.health = old.health
                            /\ new.username = old.username
                            /\ new.isCreator = old.isCreator
                       ELSE new = old
             /\ Len(out') = 1
             /\ out'[1].ev = "playerUpdated"
             /\ out'[1].kind = "others"
             /\ out'[1].room = r
             /\ out'[1].conn = c]_vars

\* a player that has been hit has just moved to a position beyond where a
\* player fits the map, in a room with other players
C29_Witness ==
    /\ Len(out) = 1
    /\ out[1].ev = "playerUpdated"
    /\ out[1].kind = "others"
    /\ \E r \in DOMAIN rooms :
          /\ Len(rooms[r].players) > 1
          /\ Has(rooms[r].players, out[1].conn)
          /\ Get(rooms[r].players, out[1].conn).health < FULL_HEALTH
          /\ Get(rooms[r].players, out[1].conn).position[1]
                > MAP_WIDTH - PLAYER_RADIUS

\* the projectiles at the indices in K from index i on, in their order, each
\* moved by its velocity once and otherwise as it was
RECURSIVE AdvancedOver(_, _, _)
AdvancedOver(projectiles, K, i) ==
    IF i > Len(projectiles) THEN <<>>
    ELSE (IF i \in K
          THEN <<[projectiles[i] EXCEPT
                     !.position = Advanced(projectiles[i])]>>
          ELSE <<>>)
         \o AdvancedOver(projectiles, K, i + 1)

\* the projectiles of a room that, moved by their velocity, are inside the
\* map and overlap no player other than their owner
Survivors(room) ==
    {k \in 1..Len(room.projectiles) :
        /\ ~OutOfBounds(Advanced(room.projectiles[k]))
        /\ InReach(room, room.projectiles[k]) = {}}

\* C30: after a tick of a 'playing' room the projectile list is a
\* subsequence of the old one, in the old order, that holds every projectile
\* which neither leaves the map nor overlaps a player other than its owner;
\* each projectile in it has position = old position + velocity and its id,
\* velocity and owner unchanged.
C30_Survivors ==
    [][((\E q \in DOMAIN rooms : rooms[q].status = "playing")
        /\ GameUpdate) =>
          \A r \in DOMAIN rooms :
             rooms[r].status = "playing" =>
                \E K \in SUBSET (1..Len(rooms[r].projectiles)) :
                   /\ Survivors(rooms[r]) \subseteq K
                   /\ rooms'[r].projectiles
                         = AdvancedOver(rooms[r].projectiles, K, 1)]_vars

\* a tick has just kept the second of two projectiles and removed the first
C30_Witness ==
    /\ Len(out) > 0
    /\ out[Len(out)].ev = "projectilesUpdated"
    /\ \E r \in DOMAIN rooms :
          /\ Cardinality(EventsOf(out, "projectileHit", r)) = 1
          /\ Len(rooms[r].projectiles) = 1
          /\ rooms[r].projectiles[1].id = 2

C31_WinnerStands ==
    [][((\E q \in DOMAIN rooms : rooms[q].status = "playing")
        /\ GameUpdate) =>
          \A r \in DOMAIN rooms :
             \A k \in EventsOf(out', "gameOver", r) :
                /\ Len(rooms'[r].players) = 1
                /\ rooms'[r].players[1].id = out'[k].who
                /\ rooms'[r].players[1].health > 0]_vars

\* C32: a projectile is added to a room only for a connection that is a
\* player of that room at that moment: the owner of every projectile
\* appended to a room's list is a key of the room's player map.
C32_ShooterInRoom ==
    [][\A r \in (DOMAIN rooms) \cap (DOMAIN rooms') :
          Len(rooms'[r].projectiles) > Len(rooms[r].projectiles) =>
             Has(rooms[r].players,
                 rooms'[r].projectiles[Len(rooms'[r].projectiles)].playerId)
      ]_vars

\* C33: once a connection's disconnect has been handled, its id is a key of
\* no room's player map.
C33_GoneAfterDisconnect ==
    \A c \in Conns :
       connState[c] = "closed" =>
          \A r \in DOMAIN rooms : ~Has(rooms[r].players, c)

\* C34: no room's player map holds two players, under different connection
\* ids, with the same username.
C34_UniqueUsernames ==
    \A r \in DOMAIN rooms :
       \A i, j \in 1..Len(rooms[r].players) :
          rooms[r].players[i].username = rooms[r].players[j].username
             => i = j

\* a connection has just joined a room under the username that an earlier,
\* now closed connection also used
C34_Witness ==
    /\ Len(out) > 0
    /\ out[1].ev = "roomJoined"
    /\ \E r \in DOMAIN rooms, d \in Conns :
          /\ r = out[1].room
          /\ Has(rooms[r].players, out[1].conn)
          /\ d # out[1].conn
          /\ connState[d] = "closed"
          /\ clientName[d] = Get(rooms[r].players, out[1].conn).username

\* C35: at most one player of a room is marked isCreator.
C35_OneCreatorFlag ==
    \A r \in DOMAIN rooms :
       Cardinality({i \in 1..Len(rooms[r].players) :
                       rooms[r].players[i].isCreator}) <= 1

\* a creator has just come back to its room, where another player had been
\* made creator in the meantime
C35_Witness ==
    /\ Len(out) > 0
    /\ out[1].ev = "roomJoined"
    /\ \E r \in DOMAIN rooms :
          /\ r = out[1].room
          /\ \E i \in 2..Len(rooms[r].players) :
                /\ rooms[r].players[i].id = out[1].conn
                /\ rooms[r].players[i].isCreator

\* C36: while a connection stays a player of a room, the health stored for
\* it never increases, whatever the step.
C36_HealthNeverRises ==
    [][\A r \in (DOMAIN rooms) \cap (DOMAIN rooms'), c \in Conns :
          (Has(rooms[r].players, c) /\ Has(rooms'[r].players, c)) =>
             Get(rooms'[r].players, c).health
                <= Get(rooms[r].players, c).health]_vars

\* room r is 'playing' and holds a projectile with id i
InFlight(r, i) ==
    /\ r \in DOMAIN rooms
    /\ rooms[r].status = "playing"
    /\ \E k \in 1..Len(rooms[r].projectiles) : rooms[r].projectiles[k].id = i

\* C37: with the tick scheduled fairly, a projectile with non-zero velocity
\* does not stay forever in a room that stays 'playing': it is removed from
\* the list, or the room stops being played.
C37_ProjectilesLeave ==
    \A r \in OneRoom, i \in ProjectileIds :
       InFlight(r, i) ~> ~InFlight(r, i)

\* the playerDied events of room r among the first k events
DiedUpTo(events, r, k) ==
    {j \in 1..k : events[j].ev = "playerDied" /\ events[j].room = r}

\* C38: in a tick, every playerDied of a room comes right after a
\* projectileHit that names the victim, which comes right after a
\* playerUpdated that gives the victim health 0; a gameOver follows the
\* playerDied exactly when one player is left in the room at that point, and
\* no gameOver comes otherwise; playerDied carries the username of the
\* projectile's owner when the owner is in the room at that point.
C38_LethalHitOrder ==
    [][((\E j \in 1..Len(out') : out'[j].ev \in {"playerDied", "gameOver"})
        /\ GameUpdate) =>
          \A k \in 1..Len(out') :
             LET e == out'[k]
                 r == e.room
                 left == Len(rooms[r].players)
                            - Cardinality(DiedUpTo(out', r, k))
             IN  /\ e.ev = "playerDied" =>
                      /\ k >= 3
                      /\ out'[k - 1].ev = "projectileHit"
                      /\ out'[k - 1].room = r
                      /\ out'[k - 1].who = e.who
                      /\ out'[k - 2].ev = "playerUpdated"
                      /\ out'[k - 2].room = r
                      /\ out'[k - 2].who = e.who
                      /\ out'[k - 2].n = 0
                      /\ (left = 1) <=>
                            (k < Len(out') /\ out'[k + 1].ev = "gameOver"
                             /\ out'[k + 1].room = r)
                      /\ \E p \in 1..Len(rooms[r].projectiles) :
                            LET owner == rooms[r].projectiles[p].playerId
                            IN  /\ rooms[r].projectiles[p].id = out'[k - 1].n
                                /\ (/\ Has(rooms[r].players, owner)
                                    /\ \A j \in DiedUpTo(out', r, k - 1) :
                                          out'[j].who # owner)
                                   => e.msg = Get(rooms[r].players,
                                                  owner).username
                 /\ e.ev = "gameOver" =>
                      /\ k >= 2
                      /\ out'[k - 1].ev = "playerDied"
                      /\ out'[k - 1].room = r]_vars

\* a tick has just killed a player with two players left in the room, and
\* playerDied names the killer
C38_Witness ==
    \E k \in 1..Len(out) :
       /\ out[k].ev = "playerDied"
       /\ out[k].msg # "Unknown"
       /\ out[k].room \in DOMAIN rooms
       /\ Len(rooms[out[k].room].players) = 2
       /\ \A j \in 1..Len(out) : out[j].ev # "gameOver"

\* C39: the disconnect of a player that is not the creator of the room it
\* is in removes that player from the room and nothing else: the other
\* players, creatorId, status and projectiles of the room and every other
\* room are as before; the recentlyDisconnected entry written for the
\* player's username names the room and has wasCreator false; no
\* creatorChanged is emitted.
C39_PlainLeave ==
    [][\A c \in Conns :
          (/\ connState[c] = "open"
           /\ socketData[c] \in DOMAIN rooms
           /\ Has(rooms[socketData[c]].players, c)
           /\ c # rooms[socketData[c]].creatorId
           /\ Disconnect(c)) =>
             LET r == socketData[c]
                 username == Get(rooms[r].players, c).username
             IN  /\ DOMAIN rooms' = DOMAIN rooms
                 /\ \A q \in DOMAIN rooms : q # r => rooms'[q] = rooms[q]
                 /\ rooms'[r].players
                       = SelectSeq(rooms[r].players, LAMBDA p : p.id # c)
                 /\ rooms'[r].creatorId = rooms[r].creatorId
                 /\ rooms'[r].status = rooms[r].status
                 /\ rooms'[r].projectiles = rooms[r].projectiles
                 /\ username \in DOMAIN recentlyDisconnected'
                 /\ recentlyDisconnected'[username].roomId = r
                 /\ ~recentlyDisconnected'[username].wasCreator
                 /\ \A k \in 1..Len(out') : out'[k].ev # "creatorChanged"
      ]_vars

\* a player that is not the creator has just left a room that is being
\* played, with a projectile in flight and the creator still in it
C39_Witness ==
    /\ Len(out) = 1
    /\ out[1].ev = "playerLeft"
    /\ out[1].room \in DOMAIN rooms
    /\ LET room == rooms[out[1].room]
       IN  /\ room.status = "playing"
           /\ room.projectiles # <<>>
           /\ Has(room.players, room.creatorId)
           /\ out[1].conn # room.creatorId

====
